---- MODULE Spec2Model ----
(***************************************************************************)
(* Dash financial dashboard (dash_finance_dashboard.py): the tidy table,   *)
(* kpi_latest, the two callbacks update_kpis and update_charts, and the    *)
(* control state that triggers them.                                       *)
(*                                                                         *)
(* Numbers.  The data are decimal literals with at most 8 fractional       *)
(* digits.  A value is the record [w, f]: w its whole part and f its       *)
(* fraction in units of 10^-8, so that every literal is held exactly.      *)
(* f"{v:.2f}" yields a count of hundredths, round(3) a count of            *)
(* thousandths.  Text that the code builds by concatenation is the         *)
(* sequence of its pieces.                                                 *)
(***************************************************************************)
EXTENDS Integers, Sequences, FiniteSets, TLC

VARIABLES company, group, yearRange,      \* the three controls / callback arguments
          kpiCards,                       \* Output('kpi-cards', 'children')
          mainChart, sparkChart, dataTable,  \* Outputs of update_charts
          filtered,                       \* update_charts' frame dff, last call
          pending,                        \* callbacks triggered and not yet run
          raised,                         \* exception of the last update_charts call
          metricArg, latest               \* kpi_latest called on its own

vars == <<company, group, yearRange, kpiCards, mainChart, sparkChart,
          dataTable, filtered, pending, raised, metricArg, latest>>

\* How far outside 2021..2025 a directly supplied year bound may lie.
YearSlack == 1

FracUnit == 10^8

\* a literal with two fractional digits, c hundredths
D2(w, c) == [w |-> w, f |-> c * 10^6]
\* a literal with eight fractional digits
D8(w, f) == [w |-> w, f |-> f]

None == [w |-> -1, f |-> -1]

----------------------------------------------------------------------------
(* Data *)

years == <<"Mar-21", "Mar-22", "Mar-23", "Mar-24", "Mar-25">>
year_numbers == <<2021, 2022, 2023, 2024, 2025>>

\* insertion order of the keys of the dicts dixon and honeywell
dict_keys == <<"Current Ratio", "Quick Ratio", "Gross Profit Margin",
               "Net Profit Margin", "Inventory Turnover", "Asset Turnover",
               "Trade Receivable Turnover">>

dixon ==
  [m \in {dict_keys[i] : i \in 1..Len(dict_keys)} |->
    CASE m = "Current Ratio" -> <<D2(1,17), D2(1,15), D2(1,7), D2(1,48), D2(1,33)>>
      [] m = "Quick Ratio" -> <<D2(1,12), D2(1,14), D2(1,27), D2(1,12), D2(1,1)>>
      [] m = "Gross Profit Margin" -> <<D2(4,4), D2(3,4), D2(4,33), D2(3,91), D2(3,25)>>
      [] m = "Net Profit Margin" -> <<D2(2,48), D2(1,78), D2(2,9), D2(2,8), D2(2,82)>>
      [] m = "Inventory Turnover" ->
           <<D8(15,48176253), D8(10,41597944), D8(10,42333314),
             D8(12,16973252), D8(12,69463956)>>
      [] m = "Asset Turnover" -> <<D2(2,27), D2(2,49), D2(2,60), D2(2,52), D2(2,30)>>
      [] m = "Trade Receivable Turnover" ->
           <<D2(11,84), D2(8,73), D2(7,93), D2(8,73), D2(8,31)>>]

honeywell ==
  [m \in {dict_keys[i] : i \in 1..Len(dict_keys)} |->
    CASE m = "Current Ratio" -> <<D2(2,72), D2(3,26), D2(3,41), D2(3,66), D2(3,45)>>
      [] m = "Quick Ratio" -> <<D2(2,61), D2(3,13), D2(3,22), D2(3,49), D2(3,24)>>
      [] m = "Gross Profit Margin" ->
           <<D2(17,75), D2(12,91), D2(13,54), D2(13,20), D2(12,65)>>
      [] m = "Net Profit Margin" ->
           <<D2(15,11), D2(11,50), D2(12,70), D2(12,35), D2(12,49)>>
      [] m = "Inventory Turnover" ->
           <<D2(31,89), D2(29,90), D2(20,94), D2(25,51), D2(17,66)>>
      [] m = "Asset Turnover" -> <<D2(1,28), D2(1,9), D2(1,14), D2(1,19), D2(1,10)>>
      [] m = "Trade Receivable Turnover" ->
           <<D2(3,58), D2(3,62), D2(4,28), D2(4,35), D2(4,20)>>]

\* rows.append({...}) for one company and one year index
CompanyRows(name, data, i) ==
  [k \in 1..Len(dict_keys) |->
     [Company |-> name, Metric |-> dict_keys[k], Value |-> data[dict_keys[k]][i],
      YearLabel |-> years[i], Year |-> year_numbers[i]]]

RECURSIVE BuildRows(_)
BuildRows(i) ==
  IF i = 0 THEN <<>>
  ELSE BuildRows(i - 1) \o CompanyRows("Dixon", dixon, i)
                        \o CompanyRows("Honeywell", honeywell, i)

df == BuildRows(Len(years))

metric_group_keys == {"liquidity", "profitability", "turnover"}

metric_groups ==
  [g \in metric_group_keys |->
    CASE g = "liquidity" -> <<"Current Ratio", "Quick Ratio">>
      [] g = "profitability" -> <<"Gross Profit Margin", "Net Profit Margin">>
      [] g = "turnover" -> <<"Inventory Turnover", "Asset Turnover",
                             "Trade Receivable Turnover">>]

----------------------------------------------------------------------------
(* Helpers standing for the pandas / Python primitives the code calls *)

Range(s) == {s[i] : i \in 1..Len(s)}

\* Python's str order on the strings that are ever sorted (sort_index of the
\* pivot's index and columns)
StrSorted == <<"Asset Turnover", "Current Ratio", "Dixon", "Gross Profit Margin",
               "Honeywell", "Inventory Turnover", "Mar-21", "Mar-22", "Mar-23",
               "Mar-24", "Mar-25", "Net Profit Margin", "Quick Ratio",
               "Trade Receivable Turnover">>

Rank(s) == CHOOSE i \in 1..Len(StrSorted) : StrSorted[i] = s

\* s.sort_values('Year'): insertion of each row after the rows whose Year is
\* not greater
RECURSIVE InsertByYear(_, _)
InsertByYear(s, r) ==
  IF s = <<>> THEN <<r>>
  ELSE IF s[Len(s)].Year <= r.Year THEN Append(s, r)
  ELSE Append(InsertByYear(SubSeq(s, 1, Len(s) - 1), r), s[Len(s)])

RECURSIVE sort_values_Year(_)
sort_values_Year(s) ==
  IF s = <<>> THEN <<>>
  ELSE InsertByYear(sort_values_Year(SubSeq(s, 1, Len(s) - 1)), s[Len(s)])

\* a column of a frame, as a sequence
Column(s, col) ==
  [i \in 1..Len(s) |-> CASE col = "Value" -> s[i].Value
                         [] col = "YearLabel" -> s[i].YearLabel
                         [] col = "Year" -> s[i].Year]

\* n / d rounded to the nearest integer, ties to even
RoundHalfEven(n, d) ==
  LET q == n \div d
      r == n % d
  IN  IF 2 * r > d \/ (2 * r = d /\ q % 2 = 1) THEN q + 1 ELSE q

\* f"{v:.2f}": the number of hundredths printed.  No literal of the data
\* lies halfway between two hundredths (or, for round(3), two thousandths),
\* so the binary value rounds as the decimal literal does.
Format2f(v) == v.w * 100 + RoundHalfEven(v.f, 10^6)

Dash == [kind |-> "dash", n |-> 0]
Fixed2(n) == [kind |-> "fixed2", n |-> n]

\* f"{val:.2f}" if val is not None else the placeholder
ValueText(val) == IF val # None THEN Fixed2(Format2f(val)) ELSE Dash

----------------------------------------------------------------------------
(* kpi_latest *)

\* variant: the first row of the sorted frame instead of the last
kpi_latest_first(df_local, comp, metric) ==
  LET sub == SelectSeq(df_local, LAMBDA r : r.Company = comp /\ r.Metric = metric)
      sorted == Column(sort_values_Year(sub), "Value")
  IN  IF sub = <<>> THEN None
      ELSE sorted[1]

kpi_latest(df_local, comp, metric) ==
  LET sub == SelectSeq(df_local, LAMBDA r : r.Company = comp /\ r.Metric = metric)
      sorted == Column(sort_values_Year(sub), "Value")
  IN  IF sub = <<>> THEN None
      ELSE sorted[Len(sorted)]

----------------------------------------------------------------------------
(* update_kpis *)

\* variant: a card for each of the seven metrics
kpisAllSeven == dict_keys

kpis == <<"Current Ratio", "Quick Ratio", "Gross Profit Margin",
          "Net Profit Margin", "Inventory Turnover", "Asset Turnover">>

\* one card: the metric title, the company captions (none for a single
\* company) and the value texts
Card(comp, metric) ==
  IF comp = "Both"
  THEN LET d_val == kpi_latest(df, "Dixon", metric)
           h_val == kpi_latest(df, "Honeywell", metric)
       IN  [metric |-> metric, labels |-> <<"Dixon", "Honeywell">>,
            values |-> <<ValueText(d_val), ValueText(h_val)>>]
  ELSE LET val == kpi_latest(df, comp, metric)
       IN  [metric |-> metric, labels |-> <<>>, values |-> <<ValueText(val)>>]

update_kpis(comp) == [i \in 1..Len(kpis) |-> Card(comp, kpis[i])]

----------------------------------------------------------------------------
(* update_charts *)

\* the character U+2014 of the series names and titles
EmDash == "--"

\* metric_groups[group] raises KeyError for a key the dict does not hold
ChartsRaise(grp) == IF grp \in DOMAIN metric_groups THEN "none" ELSE "KeyError"

\* variant: the two year conditions joined by | instead of &
FilteredDFEitherBound(grp, year_range) ==
  SelectSeq(df, LAMBDA r : /\ r.Metric \in Range(metric_groups[grp])
                           /\ (r.Year >= year_range[1] \/ r.Year <= year_range[2]))

\* variant: the upper year bound exclusive
FilteredDFExclusiveMax(grp, year_range) ==
  SelectSeq(df, LAMBDA r : /\ r.Metric \in Range(metric_groups[grp])
                           /\ r.Year >= year_range[1]
                           /\ r.Year < year_range[2])

\* dff: the rows of df of the group's metrics inside [yr_min, yr_max]
FilteredDF(grp, year_range) ==
  LET yr_min == year_range[1]
      yr_max == year_range[2]
      metrics == metric_groups[grp]
  IN  SelectSeq(df, LAMBDA r : /\ r.Metric \in Range(metrics)
                               /\ r.Year >= yr_min
                               /\ r.Year <= yr_max)

\* dff[(Metric == metric) & (Company == comp)].sort_values('Year')
SeriesRows(dff, comp, metric) ==
  sort_values_Year(SelectSeq(dff, LAMBDA r : r.Metric = metric /\ r.Company = comp))

\* go.Bar(x=s['YearLabel'], y=s['Value'], name=..., text=[f"{v:.2f}" ...])
Bar(s, name) ==
  [name |-> name, x |-> Column(s, "YearLabel"), y |-> Column(s, "Value"),
   text |-> [i \in 1..Len(s) |-> Format2f(s[i].Value)]]

\* variant: the two loops exchanged, company-major
BothTracesCompanyMajor(dff, metrics) ==
  [k \in 1..(2 * Len(metrics)) |->
     LET metric == metrics[((k - 1) % Len(metrics)) + 1]
         comp == <<"Dixon", "Honeywell">>[((k - 1) \div Len(metrics)) + 1]
     IN  Bar(SeriesRows(dff, comp, metric), <<comp, " ", EmDash, " ", metric>>)]

\* the traces of the main chart when company == 'Both': metric-major, then
\* Dixon and Honeywell
BothTraces(dff, metrics) ==
  [k \in 1..(2 * Len(metrics)) |->
     LET metric == metrics[(k + 1) \div 2]
         comp == <<"Dixon", "Honeywell">>[((k - 1) % 2) + 1]
     IN  Bar(SeriesRows(dff, comp, metric), <<comp, " ", EmDash, " ", metric>>)]

\* the traces of the main chart for one company
SingleTraces(dff, comp, metrics) ==
  [k \in 1..Len(metrics) |->
     Bar(SeriesRows(dff, comp, metrics[k]), <<metrics[k]>>)]

\* str.title() of the group keys
Title(grp) ==
  CASE grp = "liquidity" -> "Liquidity"
    [] grp = "profitability" -> "Profitability"
    [] grp = "turnover" -> "Turnover"

MainChart(comp, grp, year_range) ==
  LET metrics == metric_groups[grp]
      dff == FilteredDF(grp, year_range)
  IN  IF comp = "Both"
      THEN [traces |-> BothTraces(dff, metrics),
            title |-> <<"Comparison ", EmDash, " grouped by metric & company">>]
      ELSE [traces |-> SingleTraces(dff, comp, metrics),
            title |-> <<comp, " ", EmDash, " ", Title(grp)>>]

\* go.Scatter(x=s['YearLabel'], y=s['Value'], mode='lines+markers', name=comp)
Scatter(s, name) ==
  [name |-> name, x |-> Column(s, "YearLabel"), y |-> Column(s, "Value")]

SparkChart(comp, grp, year_range) ==
  LET metrics == metric_groups[grp]
      dff == FilteredDF(grp, year_range)
      primary == metrics[1]
  IN  [traces |->
         IF comp = "Both"
         THEN [k \in 1..2 |->
                 LET c == <<"Dixon", "Honeywell">>[k]
                 IN  Scatter(SeriesRows(dff, c, primary), c)]
         ELSE <<Scatter(SeriesRows(dff, comp, primary), comp)>>,
       title |-> <<"Trend ", EmDash, " ", primary>>]

----------------------------------------------------------------------------
(* Data table: dff.pivot_table(...).round(3).to_csv() *)

NaN == [w |-> -2, f |-> -2]

\* the elements of a set of strings or of pairs of strings, ascending
RECURSIVE SortLabels(_)
SortLabels(S) ==
  IF S = {} THEN <<>>
  ELSE LET m == CHOOSE x \in S : \A y \in S : Rank(x) <= Rank(y)
       IN  <<m>> \o SortLabels(S \ {m})

RECURSIVE SortPairs(_)
SortPairs(S) ==
  IF S = {} THEN <<>>
  ELSE LET m == CHOOSE x \in S : \A y \in S :
                  \/ Rank(x[1]) < Rank(y[1])
                  \/ (x[1] = y[1] /\ Rank(x[2]) <= Rank(y[2]))
       IN  <<m>> \o SortPairs(S \ {m})

RECURSIVE SumW(_)
SumW(vs) == IF vs = <<>> THEN 0 ELSE vs[1].w + SumW(Tail(vs))

RECURSIVE SumF(_)
SumF(vs) == IF vs = <<>> THEN 0 ELSE vs[1].f + SumF(Tail(vs))

\* aggfunc mean (the default) of the values of one group
Mean(vs) ==
  LET n == Len(vs)
      tw == SumW(vs) + (SumF(vs) \div FracUnit)
      tf == SumF(vs) % FracUnit
  IN  [w |-> tw \div n, f |-> ((tw % n) * FracUnit + tf) \div n]

\* the wide frame: index the sorted year labels, columns the sorted
\* (Company, Metric) pairs, each taken from the rows that exist; a cell with
\* no row is NaN (no fill_value is given)
pivot_table(dff) ==
  LET index == SortLabels({dff[i].YearLabel : i \in 1..Len(dff)})
      columns == SortPairs({<<dff[i].Company, dff[i].Metric>> : i \in 1..Len(dff)})
      grp(l, c) == Column(SelectSeq(dff, LAMBDA r : /\ r.YearLabel = l
                                                     /\ r.Company = c[1]
                                                     /\ r.Metric = c[2]), "Value")
  IN  [index |-> index, columns |-> columns,
       data |-> [i \in 1..Len(index) |-> [j \in 1..Len(columns) |->
                   IF grp(index[i], columns[j]) = <<>> THEN NaN
                   ELSE Mean(grp(index[i], columns[j]))]]]

\* variant: the digits after the third cut off
Round3Truncate(v) == v.w * 1000 + (v.f \div 10^5)

\* round(3) of one cell: the number of thousandths
Round3(v) == v.w * 1000 + RoundHalfEven(v.f, 10^5)

Str(s) == [kind |-> "str", s |-> s, n |-> 0]
Num(n) == [kind |-> "num", s |-> "", n |-> n]

\* to_csv of the frame with two column levels: one header line per level,
\* the line of the index name, then one line per index label; NaN is the
\* empty field.  The frame pivoted from no rows has no index label and no
\* column, and is written by the same rule: header lines and no data line.
to_csv(t) ==
  LET nc == Len(t.columns)
  IN  << <<Str("Company")>> \o [j \in 1..nc |-> Str(t.columns[j][1])],
         <<Str("Metric")>> \o [j \in 1..nc |-> Str(t.columns[j][2])],
         <<Str("YearLabel")>> \o [j \in 1..nc |-> Str("")] >>
      \o [i \in 1..Len(t.index) |->
            <<Str(t.index[i])>> \o
            [j \in 1..nc |-> IF t.data[i][j] = NaN THEN Str("")
                             ELSE Num(Round3(t.data[i][j]))]]

\* variant: the pivot taken over the selected company's rows
TableTextOfCompany(comp, grp, year_range) ==
  to_csv(pivot_table(SelectSeq(FilteredDF(grp, year_range),
                               LAMBDA r : comp = "Both" \/ r.Company = comp)))

\* table_text; company is in scope and the pivot does not read it
TableText(comp, grp, year_range) ==
  to_csv(pivot_table(FilteredDF(grp, year_range)))

----------------------------------------------------------------------------
(* Controls and callback wiring *)

CompanyOptions == {"Dixon", "Honeywell", "Both"}
GroupOptions == {"liquidity", "profitability", "turnover"}

\* RangeSlider over the marks, step=None: an ordered pair of marks
SliderRanges ==
  {<<year_numbers[i], year_numbers[j]>> : i, j \in 1..Len(year_numbers)}
    \cap {r \in Int \X Int : r[1] <= r[2]}

\* variant: update_kpis also listening to the year range
KpisInputsWithYear == {"company-select", "year-range"}

\* variant: update_charts not listening to the year range
ChartsInputsNoYear == {"company-select", "metric-group"}

\* the Inputs each callback declares
KpisInputs == {"company-select"}
ChartsInputs == {"company-select", "metric-group", "year-range"}

Triggered(prop) ==
  (IF prop \in KpisInputs THEN {"update_kpis"} ELSE {})
    \cup (IF prop \in ChartsInputs THEN {"update_charts"} ELSE {})

EmptyFigure == [traces |-> <<>>, title |-> <<>>]

\* the page as served: default control values, empty regions, and every
\* callback due once
Init ==
  /\ company = "Both"
  /\ group = "liquidity"
  /\ yearRange = <<2021, 2025>>
  /\ kpiCards = <<>>
  /\ mainChart = EmptyFigure
  /\ sparkChart = EmptyFigure
  /\ dataTable = <<>>
  /\ filtered = <<>>
  /\ pending = {"update_kpis", "update_charts"}
  /\ raised = "none"
  /\ metricArg = "Current Ratio"
  /\ latest = None

SetCompany(c) ==
  /\ c # company
  /\ company' = c
  /\ pending' = pending \cup Triggered("company-select")
  /\ UNCHANGED <<group, yearRange, kpiCards, mainChart, sparkChart, dataTable,
                 filtered, raised, metricArg, latest>>

SetMetricGroup(g) ==
  /\ g # group
  /\ group' = g
  /\ pending' = pending \cup Triggered("metric-group")
  /\ UNCHANGED <<company, yearRange, kpiCards, mainChart, sparkChart, dataTable,
                 filtered, raised, metricArg, latest>>

SetYearRange(r) ==
  /\ r # yearRange
  /\ yearRange' = r
  /\ pending' = pending \cup Triggered("year-range")
  /\ UNCHANGED <<company, group, kpiCards, mainChart, sparkChart, dataTable,
                 filtered, raised, metricArg, latest>>

RunUpdateKpis ==
  /\ "update_kpis" \in pending
  /\ kpiCards' = update_kpis(company)
  /\ pending' = pending \ {"update_kpis"}
  /\ UNCHANGED <<company, group, yearRange, mainChart, sparkChart, dataTable,
                 filtered, raised, metricArg, latest>>

\* a callback that raises updates none of its outputs
RunUpdateCharts ==
  /\ "update_charts" \in pending
  /\ raised' = ChartsRaise(group)
  /\ IF ChartsRaise(group) = "none"
     THEN /\ filtered' = FilteredDF(group, yearRange)
          /\ mainChart' = MainChart(company, group, yearRange)
          /\ sparkChart' = SparkChart(company, group, yearRange)
          /\ dataTable' = TableText(company, group, yearRange)
     ELSE UNCHANGED <<filtered, mainChart, sparkChart, dataTable>>
  /\ pending' = pending \ {"update_charts"}
  /\ UNCHANGED <<company, group, yearRange, kpiCards, metricArg, latest>>

Next ==
  \/ \E c \in CompanyOptions : SetCompany(c)
  \/ \E g \in GroupOptions : SetMetricGroup(g)
  \/ \E r \in SliderRanges : SetYearRange(r)
  \/ RunUpdateKpis
  \/ RunUpdateCharts

Spec == Init /\ [][Next]_vars

----------------------------------------------------------------------------
(* The functions called on their own, with arguments the controls cannot   *)
(* produce as well: each is called once on the drawn arguments.            *)

CompanyArgs == CompanyOptions \cup {"Other"}
GroupArgs == GroupOptions \cup {"other"}
MetricArgs == Range(dict_keys) \cup {"Other Metric"}
YearArgs == (2021 - YearSlack)..(2025 + YearSlack)

InitCall ==
  /\ company \in CompanyArgs
  /\ group \in GroupArgs
  /\ yearRange \in YearArgs \X YearArgs
  /\ metricArg \in MetricArgs
  /\ kpiCards = <<>>
  /\ mainChart = EmptyFigure
  /\ sparkChart = EmptyFigure
  /\ dataTable = <<>>
  /\ filtered = <<>>
  /\ pending = {"update_kpis", "update_charts", "kpi_latest"}
  /\ raised = "none"
  /\ latest = None

RunKpiLatest ==
  /\ "kpi_latest" \in pending
  /\ latest' = kpi_latest(df, company, metricArg)
  /\ pending' = pending \ {"kpi_latest"}
  /\ UNCHANGED <<company, group, yearRange, kpiCards, mainChart, sparkChart,
                 dataTable, filtered, raised, metricArg>>

NextCall == RunUpdateKpis \/ RunUpdateCharts \/ RunKpiLatest

CallSpec == InitCall /\ [][NextCall]_vars

----------------------------------------------------------------------------
(* Properties of the control state and the callbacks' triggering (Spec) *)

KpisDue == "update_kpis" \in pending
ChartsDue == "update_charts" \in pending

\* C1: a change of the metric group or of the year range neither changes the
\* KPI cards nor makes update_kpis due; and while update_kpis is not due and
\* the company stays, the cards stay and update_kpis stays not due: only a
\* change of company-select triggers it.
C1_KpisOnlyOnCompany ==
  [][ /\ (group' # group \/ yearRange' # yearRange)
           => (kpiCards' = kpiCards /\ (KpisDue' <=> KpisDue))
      /\ (~KpisDue /\ company' = company)
           => (kpiCards' = kpiCards /\ ~KpisDue') ]_vars

\* the metric group and the year range were changed and the charts redrawn
\* for them, with the cards still those of the unchanged company
C1_Witness ==
  /\ company = "Both" /\ group = "turnover" /\ yearRange = <<2022, 2024>>
  /\ pending = {}
  /\ Len(filtered) = 18
  /\ Len(kpiCards) = 6 /\ kpiCards[1].labels = <<"Dixon", "Honeywell">>

\* C2: once the triggered callbacks have run, the cards are update_kpis of
\* the current company and the chart, sparkline and table are update_charts
\* of the current company, metric group and year range.
C2_ViewIsCurrent ==
  /\ ~KpisDue => kpiCards = update_kpis(company)
  /\ ~ChartsDue => /\ mainChart = MainChart(company, group, yearRange)
                   /\ sparkChart = SparkChart(company, group, yearRange)
                   /\ dataTable = TableText(company, group, yearRange)

\* every control was changed and both callbacks have run since
C2_Witness ==
  /\ company = "Dixon" /\ group = "profitability" /\ yearRange = <<2023, 2024>>
  /\ pending = {}
  /\ Len(mainChart.traces) = 2 /\ mainChart.traces[1].x = <<"Mar-23", "Mar-24">>
  /\ Len(kpiCards) = 6 /\ kpiCards[1].labels = <<>>

----------------------------------------------------------------------------
(* Properties of the functions on drawn arguments (CallSpec) *)

KpisRan == "update_kpis" \notin pending
ChartsRan == "update_charts" \notin pending
LatestRan == "kpi_latest" \notin pending

DataOf(c) == IF c = "Dixon" THEN dixon ELSE honeywell

\* the lines of the table text that start with a year label
DataRows(t) == SelectSeq(t, LAMBDA line : line[1].s \in Range(years))

AllTracesEmpty(fig) ==
  \A k \in 1..Len(fig.traces) : fig.traces[k].x = <<>> /\ fig.traces[k].y = <<>>

\* C3: a metric-group key or a company outside the offered values gives empty
\* results (empty series, a table without data rows, placeholder cards) and
\* no failure.
C3_InvalidSelectionIsEmpty ==
  /\ (ChartsRan /\ (group \notin GroupOptions \/ company \notin CompanyOptions))
       => /\ raised = "none"
          /\ Len(mainChart.traces) > 0 /\ AllTracesEmpty(mainChart)
          /\ Len(sparkChart.traces) > 0 /\ AllTracesEmpty(sparkChart)
          /\ Len(dataTable) > 0 /\ DataRows(dataTable) = <<>>
  /\ (KpisRan /\ company \notin CompanyOptions)
       => /\ Len(kpiCards) = 6
          /\ \A i \in 1..6 : kpiCards[i].values = <<Dash>>

\* C4: with yr_min > yr_max update_charts raises nothing, gives one empty
\* series per metric (per company for Both) in the main chart, empty
\* sparkline series, and a table with no data rows.
C4_EmptyRange ==
  (ChartsRan /\ group \in GroupOptions /\ yearRange[1] > yearRange[2])
    => /\ raised = "none"
       /\ filtered = <<>>
       /\ Len(mainChart.traces) =
            (IF company = "Both" THEN 2 ELSE 1) * Len(metric_groups[group])
       /\ AllTracesEmpty(mainChart)
       /\ Len(sparkChart.traces) = (IF company = "Both" THEN 2 ELSE 1)
       /\ AllTracesEmpty(sparkChart)
       /\ Len(dataTable) > 0 /\ DataRows(dataTable) = <<>>

C4_Witness ==
  /\ ChartsRan /\ company = "Both" /\ group = "turnover"
  /\ yearRange = <<2024, 2022>>
  /\ Len(mainChart.traces) = 6 /\ mainChart.traces[6].x = <<>>
  /\ Len(dataTable) > 0 /\ DataRows(dataTable) = <<>>

\* C5: for a (company, metric) pair of the dataset kpi_latest returns the
\* value of the pair's record of greatest year, which is the 2025 entry of
\* the literal table; for any other pair it returns None.
C5_LatestIs2025 ==
  LatestRan =>
    IF company \in {"Dixon", "Honeywell"} /\ metricArg \in Range(dict_keys)
    THEN /\ latest = DataOf(company)[metricArg][5]
         /\ \E i \in 1..Len(df) :
              /\ df[i].Company = company /\ df[i].Metric = metricArg
              /\ df[i].Year = 2025 /\ df[i].Value = latest
              /\ \A j \in 1..Len(df) :
                   (df[j].Company = company /\ df[j].Metric = metricArg)
                     => df[j].Year <= df[i].Year
         /\ (company = "Dixon" /\ metricArg = "Current Ratio")
              => latest = [w |-> 1, f |-> 33000000]
         /\ (company = "Honeywell" /\ metricArg = "Net Profit Margin")
              => latest = [w |-> 12, f |-> 49000000]
    ELSE latest = None

C5_Witness ==
  /\ LatestRan /\ company = "Honeywell" /\ metricArg = "Net Profit Margin"
  /\ latest = [w |-> 12, f |-> 49000000]

\* C6: for a group g and 2021 <= a <= b <= 2025 the filtered frame holds
\* exactly (b - a + 1) * |metrics of g| * 2 rows, each of a metric of g and
\* of a year in [a, b]; liquidity over [2021, 2025] gives 20 rows.
C6_FilterCount ==
  (ChartsRan /\ group \in GroupOptions
     /\ 2021 <= yearRange[1] /\ yearRange[1] <= yearRange[2] /\ yearRange[2] <= 2025)
    => /\ Len(filtered) =
            (yearRange[2] - yearRange[1] + 1) * Len(metric_groups[group]) * 2
       /\ \A i \in 1..Len(filtered) :
            /\ filtered[i].Metric \in Range(metric_groups[group])
            /\ yearRange[1] <= filtered[i].Year /\ filtered[i].Year <= yearRange[2]
       /\ \A i, j \in 1..Len(filtered) : filtered[i] = filtered[j] => i = j
       /\ (group = "liquidity" /\ yearRange = <<2021, 2025>>) => Len(filtered) = 20
       /\ (yearRange = <<2023, 2024>>)
            => Len(filtered) = 2 * Len(metric_groups[group]) * 2

C6_Witness ==
  /\ ChartsRan /\ group = "liquidity" /\ yearRange = <<2021, 2025>>
  /\ Len(filtered) = 20


\* C7: update_kpis gives six cards, for the six metrics of the fixed list in
\* its order and never for Trade Receivable Turnover; for Both each card
\* holds Dixon's and Honeywell's latest value, for one company that
\* company's latest value alone, each printed with two decimals; a value
\* that is missing is the placeholder.
C7_SixCards ==
  KpisRan =>
    /\ Len(kpiCards) = 6
    /\ [i \in 1..6 |-> kpiCards[i].metric] =
         <<"Current Ratio", "Quick Ratio", "Gross Profit Margin",
           "Net Profit Margin", "Inventory Turnover", "Asset Turnover">>
    /\ \A i \in 1..Len(kpiCards) :
         LET card == kpiCards[i]
         IN  /\ card.metric # "Trade Receivable Turnover"
             /\ CASE company = "Both" ->
                       /\ card.labels = <<"Dixon", "Honeywell">>
                       /\ card.values =
                            <<Fixed2(Format2f(dixon[card.metric][5])),
                              Fixed2(Format2f(honeywell[card.metric][5]))>>
                  [] company \in {"Dixon", "Honeywell"} ->
                       /\ card.labels = <<>>
                       /\ card.values =
                            <<Fixed2(Format2f(DataOf(company)[card.metric][5]))>>
                  [] OTHER -> card.values = <<Dash>>
    /\ company = "Both" =>
         /\ kpiCards[3].values = <<[kind |-> "fixed2", n |-> 325],
                                   [kind |-> "fixed2", n |-> 1265]>>
         /\ kpiCards[5].values[1] = [kind |-> "fixed2", n |-> 1269]

C7_Witness ==
  /\ KpisRan /\ company = "Both"
  /\ kpiCards[3].metric = "Gross Profit Margin"
  /\ kpiCards[3].values = <<[kind |-> "fixed2", n |-> 325],
                            [kind |-> "fixed2", n |-> 1265]>>

\* the fields of the table text at the line of a year label and the column
\* of a (company, metric) pair, the empty field left out
Cells(t, label, comp, metric) ==
  {t[i][j] : i \in {r \in 4..Len(t) : t[r][1] = Str(label)},
             j \in {c \in 2..Len(t[1]) : t[1][c] = Str(comp) /\ t[2][c] = Str(metric)}}
    \ {Str("")}

\* n thousandths is the value v rounded to three decimals
IsRounded3(n, v) ==
  LET d == v.f - (n - v.w * 1000) * 10^5
  IN  -50000 <= d /\ d <= 50000

\* C8: the table has a cell at (yearLabel, company, metric) exactly when the
\* filtered frame holds a row of that triple, and the cell is that row's
\* value rounded to three decimals; a triple without a row has no cell (it
\* is not filled with zero).  (Mar-23, Dixon, Quick Ratio) reads 1.27 for
\* liquidity over [2021, 2025].
C8_PivotRoundTrip ==
  (ChartsRan /\ raised = "none") =>
    /\ \A label \in Range(years), comp \in {"Dixon", "Honeywell"},
          metric \in Range(dict_keys) :
         LET rows == {i \in 1..Len(filtered) :
                        /\ filtered[i].YearLabel = label
                        /\ filtered[i].Company = comp
                        /\ filtered[i].Metric = metric}
             cells == Cells(dataTable, label, comp, metric)
         IN  /\ cells # {} <=> rows # {}
             /\ \A i \in rows :
                  /\ Cardinality(cells) = 1
                  /\ \A c \in cells : c.kind = "num" /\ IsRounded3(c.n, filtered[i].Value)
    /\ (group = "liquidity" /\ yearRange[1] <= 2021 /\ yearRange[2] >= 2025)
         => Cells(dataTable, "Mar-23", "Dixon", "Quick Ratio") = {Num(1270)}

C8_Witness ==
  /\ ChartsRan /\ group = "liquidity" /\ yearRange = <<2021, 2025>>
  /\ Cells(dataTable, "Mar-23", "Dixon", "Quick Ratio") = {Num(1270)}
  /\ Cells(dataTable, "Mar-23", "Dixon", "Asset Turnover") = {}

\* C9: for a group g and 2021 <= a <= b <= 2025 the main chart holds, for
\* Both, 2 * |metrics of g| series, metric-major with Dixon before Honeywell,
\* named company, dash, metric; for one company |metrics of g| series in the
\* group's order named by the metric and holding that company's values; each
\* series lists exactly the years a..b in ascending order.
C9_MainChartSeries ==
  (ChartsRan /\ group \in GroupOptions /\ company \in CompanyOptions
     /\ 2021 <= yearRange[1] /\ yearRange[1] <= yearRange[2] /\ yearRange[2] <= 2025)
    => LET ms == metric_groups[group]
           tr == mainChart.traces
           a == yearRange[1]
           n == yearRange[2] - yearRange[1] + 1
           xs == [j \in 1..n |-> years[a - 2021 + j]]
           ys(c, m) == [j \in 1..n |-> DataOf(c)[m][a - 2021 + j]]
       IN  IF company = "Both"
           THEN /\ Len(tr) = 2 * Len(ms)
                /\ \A i \in 1..Len(ms), c \in 1..2 :
                     LET t == tr[2 * (i - 1) + c]
                         comp == <<"Dixon", "Honeywell">>[c]
                     IN  /\ t.name = <<comp, " ", EmDash, " ", ms[i]>>
                         /\ t.x = xs
                         /\ t.y = ys(comp, ms[i])
                         /\ Len(t.text) = n
           ELSE /\ Len(tr) = Len(ms)
                /\ \A i \in 1..Len(ms) :
                     /\ tr[i].name = <<ms[i]>>
                     /\ tr[i].x = xs
                     /\ tr[i].y = ys(company, ms[i])
                     /\ Len(tr[i].text) = n

C9_Witness ==
  /\ ChartsRan /\ company = "Both" /\ group = "turnover"
  /\ yearRange = <<2022, 2024>>
  /\ Len(mainChart.traces) = 6
  /\ mainChart.traces[2].name = <<"Honeywell", " ", EmDash, " ", "Inventory Turnover">>
  /\ mainChart.traces[2].x = <<"Mar-22", "Mar-23", "Mar-24">>

\* C10: the table text is the same whichever company is selected, and holds
\* the columns of both companies whenever any row passes the filter.
C10_TableIgnoresCompany ==
  (ChartsRan /\ raised = "none") =>
    /\ \A c \in CompanyOptions : dataTable = TableText(c, group, yearRange)
    /\ filtered # <<>> =>
         {"Dixon", "Honeywell"} =
           {dataTable[1][j].s : j \in 2..Len(dataTable[1])}

\* Dixon alone is selected: the chart holds Dixon's series only and the
\* table holds Honeywell's columns as well
C10_Witness ==
  /\ ChartsRan /\ company = "Dixon" /\ group = "liquidity"
  /\ yearRange = <<2021, 2025>>
  /\ Len(mainChart.traces) = 2
  /\ Cells(dataTable, "Mar-25", "Honeywell", "Quick Ratio") = {Num(3240)}

====
